---- MODULE Spec2Model ----
(***************************************************************************)
(* Upload and delete request handlers of the media library:                *)
(*   POST   /api/video-upload, /api/image-upload                           *)
(*   DELETE /api/video/[id],   /api/image/[id]                             *)
(* together with the two collaborators they share: the Prisma tables       *)
(* (videos, images) and the Cloudinary asset namespace.                    *)
(*                                                                         *)
(* A request handler is an async function; between two awaits it runs     *)
(* without interleaving, so every action below is one such segment, ending *)
(* at the await of a remote call (Cloudinary or Prisma) or at a response.  *)
(***************************************************************************)
EXTENDS Integers, Sequences, FiniteSets, TLC

VARIABLES
    store,      \* rows of the tables "videos" and "images" (field kind tells which)
    cloud,      \* assets present on Cloudinary: <<resource_type, public_id>>
    req,        \* per request in flight: position, inputs, locals
    sent,       \* the request answered by the last step, with its response
    nextId,     \* number of rows ever inserted + 1 (ids are never reused)
    ops,        \* number of requests received so far
    edge,       \* proxy.ts: the request the middleware saw last, and its answer
    refs,       \* publicIds generated so far, as text, with what they were made of
    dash,       \* the dashboard page: its React state and its requests in flight
    page        \* an upload page: its React state, its timers and its requests

server == <<store, cloud, req, sent, nextId, ops>>
client == <<edge, refs, dash, page>>
vars == <<store, cloud, req, sent, nextId, ops, edge, refs, dash, page>>

(***************************************************************************)
(* Bounds                                                                  *)
(***************************************************************************)
MaxConc == 2        \* requests in flight at the same time
MaxOps == 3         \* requests received in one behaviour
MaxTime == 1        \* distinct values of Date.now() seen by the uploads
MaxRand == 1        \* distinct values of the random part of a publicId
MaxStrLen == 2      \* length of the submitted title / description strings
MaxSub == 1         \* segments of the sub-path of a requested route
MaxIdLen == 2       \* length of a user id, in characters
MaxUploads == 2     \* uploads started on an upload page
MaxReaders == 1     \* FileReaders of an upload page at work at the same time

Slots == 1..MaxConc
Kinds == {"video", "image"}
Users == {"u1", "u2"}
NoUser == ""                    \* auth() returned { userId: null }
Callers == Users \cup {NoUser}

(***************************************************************************)
(* Program constants                                                       *)
(***************************************************************************)
VIDEO_MAX_FILE_SIZE == 20 * 1024 * 1024
IMAGE_MAX_FILE_SIZE == 10 * 1024 * 1024
VIDEO_ALLOWED_FORMATS ==
    {"video/mp4", "video/mpeg", "video/quicktime", "video/x-msvideo",
     "video/webm", "video/x-matroska"}
\* Variant: one more format is let through.
IMAGE_ALLOWED_FORMATS_Gif == {"image/jpeg", "image/png", "image/webp", "image/gif"}

IMAGE_ALLOWED_FORMATS == {"image/jpeg", "image/png", "image/webp"}

MAX_FILE_SIZE(kind) ==
    IF kind = "video" THEN VIDEO_MAX_FILE_SIZE ELSE IMAGE_MAX_FILE_SIZE
ALLOWED_FORMATS(kind) ==
    IF kind = "video" THEN VIDEO_ALLOWED_FORMATS ELSE IMAGE_ALLOWED_FORMATS

(***************************************************************************)
(* Strings are sequences of characters; String.prototype.trim removes the  *)
(* white space at both ends.                                               *)
(***************************************************************************)
WhiteSpace == {" ", "\t"}
Chars == {" ", "d"}

RECURSIVE TrimStart(_)
TrimStart(s) ==
    IF s # <<>> /\ Head(s) \in WhiteSpace THEN TrimStart(Tail(s)) ELSE s

RECURSIVE TrimEnd(_)
TrimEnd(s) ==
    IF s # <<>> /\ s[Len(s)] \in WhiteSpace
    THEN TrimEnd(SubSeq(s, 1, Len(s) - 1))
    ELSE s

trim(s) == TrimEnd(TrimStart(s))

Strings(n) == UNION {[1..k -> Chars] : k \in 0..n}

Has(rec, field) == field \in DOMAIN rec

Null == <<"null">>              \* JavaScript null where a string is expected
NoError == <<>>                 \* nothing was thrown
null == [null |-> TRUE]         \* JavaScript null where an object is expected

(***************************************************************************)
(* Error objects.  A Cloudinary error carries http_code; a Prisma known    *)
(* request error carries code "Pnnnn" (a pair <<letter, number>> here, so  *)
(* that startsWith("P") is computed); other errors carry neither.          *)
(***************************************************************************)
P2002 == [code |-> <<"P", 2002>>]       \* unique constraint failed
P2025 == [code |-> <<"P", 2025>>]       \* record to delete does not exist
P1017 == [code |-> <<"P", 1017>>]       \* server has closed the connection
PrismaValidationError == [name |-> "PrismaClientValidationError"]

GatewayUploadErrors ==
    {[http_code |-> 400], [http_code |-> 499], [http_code |-> 500],
     [code |-> <<"E", 104>>]}           \* ECONNRESET: no http_code
GatewayDestroyErrors == {[http_code |-> 404], [code |-> <<"E", 104>>]}

Response(status, body) == [status |-> status, body |-> body]
Pass == Response(0, "")         \* no early return: the handler goes on

(***************************************************************************)
(* POST: authentication and validation, steps 1 to 6.                      *)
(* form is the parsed FormData: a record holding the fields that were sent *)
(* (file |-> [type, size], title, description).                            *)
(***************************************************************************)
Authenticated(userId) == userId # NoUser

TitleMissing(form) ==
    \/ ~Has(form, "title")
    \/ form.title = <<>>
    \/ Len(trim(form.title)) = 0

\* Variant: the file is checked (type, size) before the title.
UploadCheck_FileFirst(kind, userId, form) ==
    IF ~Authenticated(userId) THEN Response(401, "unauthorized")
    ELSE IF ~Has(form, "file") THEN Response(400, "no_file")
    ELSE IF form.file.type \notin ALLOWED_FORMATS(kind)
         THEN Response(400, "invalid_format")
    ELSE IF form.file.size > MAX_FILE_SIZE(kind)
         THEN Response(400, "too_large")
    ELSE IF TitleMissing(form) THEN Response(400, "no_title")
    ELSE Pass

\* Variant: a file of exactly the limit is turned away (>= for >).
UploadCheck_AtLimit(kind, userId, form) ==
    IF ~Authenticated(userId) THEN Response(401, "unauthorized")
    ELSE IF ~Has(form, "file") THEN Response(400, "no_file")
    ELSE IF TitleMissing(form) THEN Response(400, "no_title")
    ELSE IF form.file.type \notin ALLOWED_FORMATS(kind)
         THEN Response(400, "invalid_format")
    ELSE IF form.file.size >= MAX_FILE_SIZE(kind)
         THEN Response(400, "too_large")
    ELSE Pass

UploadCheck(kind, userId, form) ==
    IF ~Authenticated(userId) THEN Response(401, "unauthorized")
    ELSE IF ~Has(form, "file") THEN Response(400, "no_file")
    ELSE IF TitleMissing(form) THEN Response(400, "no_title")
    ELSE IF form.file.type \notin ALLOWED_FORMATS(kind)
         THEN Response(400, "invalid_format")
    ELSE IF form.file.size > MAX_FILE_SIZE(kind)
         THEN Response(400, "too_large")
    ELSE Pass

(***************************************************************************)
(* POST step 8: `${kind}s/${userId}/${timestamp}-${randomString}`          *)
(***************************************************************************)
PublicId(kind, userId, timestamp, randomString) ==
    <<IF kind = "video" THEN "videos" ELSE "images", "/", userId, "/",
      timestamp, "-", randomString>>

(***************************************************************************)
(* POST step 9: what upload_stream hands to its callback on success.       *)
(* Cloudinary stores the asset under the requested public_id; bytes and    *)
(* duration are reported for videos and may be missing.                    *)
(***************************************************************************)
UploadResults(kind, publicId) ==
    LET base == [public_id |-> publicId, secure_url |-> <<"https", publicId>>]
    IN  IF kind = "video"
        THEN {base, base @@ [bytes |-> 6000000, duration |-> 42500]}
        ELSE {base}

(***************************************************************************)
(* POST step 11: the data handed to prisma.<kind>.create.                  *)
(* duration is in milliseconds (the column is a double, in seconds).       *)
(***************************************************************************)
\* Variant: a blank description is stored as the empty string.
Description_NoNull(form) ==
    IF Has(form, "description") THEN trim(form.description) ELSE Null

Description(form) ==
    IF Has(form, "description") /\ trim(form.description) # <<>>
    THEN trim(form.description)
    ELSE Null

Field(name, obj, key) ==         \* { name: obj.key }; undefined is left out
    IF Has(obj, key) THEN [x \in {name} |-> obj[key]] ELSE <<>>

\* Variant: the size reported by Cloudinary is ignored.
VideoCreateData_OriginalSizeTwice(q) ==
    Field("publicId", q.result, "public_id") @@
    [title |-> trim(q.form.title),
     description |-> Description(q.form),
     userId |-> q.userId,
     originalSize |-> q.form.file.size,
     compressedSize |-> q.form.file.size,
     duration |-> IF Has(q.result, "duration") /\ q.result.duration # 0
                  THEN q.result.duration ELSE 0]

VideoCreateData(q) ==
    Field("publicId", q.result, "public_id") @@
    [title |-> trim(q.form.title),
     description |-> Description(q.form),
     userId |-> q.userId,
     originalSize |-> q.form.file.size,
     compressedSize |-> IF Has(q.result, "bytes") /\ q.result.bytes # 0
                        THEN q.result.bytes ELSE q.form.file.size,
     duration |-> IF Has(q.result, "duration") /\ q.result.duration # 0
                  THEN q.result.duration ELSE 0]

ImageCreateData(q) ==
    Field("publicId", q.result, "public_id") @@
    [title |-> trim(q.form.title),
     description |-> Description(q.form),
     originalSize |-> q.form.file.size]

CreateData(q) ==
    IF q.kind = "video" THEN VideoCreateData(q) ELSE ImageCreateData(q)

(***************************************************************************)
(* The tables.  Columns declared NOT NULL without a default must be given  *)
(* by the insert; publicId is unique within a table.                       *)
(***************************************************************************)
RequiredColumns(kind) ==
    IF kind = "video"
    THEN {"title", "publicId", "userId", "originalSize", "compressedSize",
          "duration"}
    ELSE {"title", "publicId", "userId", "originalSize"}

Table(rows, kind) == {row \in rows : row.kind = kind}

\* Variant: the table has no unique index on publicId.
CreateError_NoUniqueIndex(rows, kind, data) ==
    IF ~(RequiredColumns(kind) \subseteq DOMAIN data)
    THEN PrismaValidationError
    ELSE NoError

CreateError(rows, kind, data) ==
    IF ~(RequiredColumns(kind) \subseteq DOMAIN data)
    THEN PrismaValidationError
    ELSE IF \E row \in Table(rows, kind) : row.publicId = data.publicId
    THEN P2002
    ELSE NoError

NewRow(kind, id, data) == [kind |-> kind, id |-> id] @@ data

(***************************************************************************)
(* POST: the catch block.                                                  *)
(***************************************************************************)
StartsWithP(code) == Head(code) = "P"

UploadCatch(error) ==
    IF Has(error, "http_code") /\ error.http_code # 0
    THEN Response(error.http_code, "cloudinary")
    ELSE IF Has(error, "code") /\ StartsWithP(error.code)
    THEN Response(500, "database")
    ELSE Response(500, "internal")

(***************************************************************************)
(* Requests.                                                               *)
(*   pc: "idle" | "upload" (awaiting upload_stream) | "create" (awaiting   *)
(*       prisma create) | "destroy" (awaiting uploader.destroy) |          *)
(*       "delete" (awaiting prisma delete) | "done" (response returned)    *)
(*   log: the remote calls the request has completed, in order.            *)
(* A request occupies a slot of req while it is in flight; when its        *)
(* response is returned the slot is free again and the request is kept in  *)
(* sent.                                                                   *)
(***************************************************************************)
Idle == [pc |-> "idle"]

NewUpload(kind, userId, form) ==
    [pc |-> "upload", op |-> "upload", kind |-> kind, userId |-> userId,
     form |-> form, publicId |-> <<>>, result |-> <<>>, row |-> <<>>,
     error |-> NoError, resp |-> Pass, log |-> <<>>]

NewDelete(kind, userId) ==
    [pc |-> "destroy", op |-> "delete", kind |-> kind, userId |-> userId,
     id |-> Null, found |-> {}, error |-> NoError, resp |-> Pass, log |-> <<>>]

Reply(q, resp) == [q EXCEPT !.pc = "done", !.resp = resp]
Logged(q, event) == [q EXCEPT !.log = Append(q.log, event)]
Caught(q, error, resp) == Reply([q EXCEPT !.error = error], resp)

(***************************************************************************)
(* The pages as React renders them first: the dashboard with its useState  *)
(* defaults and fetchMedia under way, an upload page not yet opened.       *)
(***************************************************************************)
DashboardPage ==
    [loading |-> TRUE, error |-> Null, videos |-> <<>>, images |-> <<>>,
     itemToDelete |-> null, isDeleting |-> FALSE,
     deletes |-> <<>>,          \* calls of handleDelete awaiting their fetch
     handled |-> null]          \* the call that went on in the last step

Unmounted == [kind |-> "none"]

UploadPage(kind) ==
    [kind |-> kind,
     file |-> null, preview |-> null, title |-> <<>>, description |-> <<>>,
     uploadState |-> "idle", uploadProgress |-> 0, errorMessage |-> "",
     uploaded |-> null,
     picked |-> null,           \* the file of the last change or drop event
     fetches |-> <<>>,          \* calls of handleUpload awaiting their fetch
     intervals |-> {},          \* setInterval timers that are running
     timeouts |-> 0,            \* setTimeout callbacks that are due
     readers |-> <<>>,          \* files a FileReader is reading
     started |-> 0]             \* calls of handleUpload so far

\* The slot r goes on as q, or q is answered in this step and leaves the slot.
Step(r, q) ==
    /\ IF q.pc = "done"
       THEN req' = [req EXCEPT ![r] = Idle] /\ sent' = q
       ELSE req' = [req EXCEPT ![r] = q] /\ sent' = Idle
    /\ UNCHANGED client

\* A new request is taken into the first free slot.
Free(r) ==
    /\ req[r].pc = "idle"
    /\ \A s \in Slots : s < r => req[s].pc # "idle"

Init ==
    /\ store = {}
    /\ cloud = {}
    /\ req = [r \in Slots |-> Idle]
    /\ sent = Idle
    /\ nextId = 1
    /\ ops = 0
    /\ edge = <<>>
    /\ refs = {}
    /\ dash = DashboardPage
    /\ page = Unmounted

(***************************************************************************)
(* POST, steps 1 to 8: up to the call of upload_stream.                    *)
(***************************************************************************)
UploadBegin(r, kind, userId, form, timestamp, randomString) ==
    /\ Free(r)
    /\ ops < MaxOps
    /\ ops' = ops + 1
    /\ LET q == NewUpload(kind, userId, form)
           check == UploadCheck(kind, userId, form)
       IN  Step(r, IF check # Pass
                   THEN Reply(q, check)
                   ELSE [q EXCEPT !.publicId =
                           PublicId(kind, userId, timestamp, randomString)])
    /\ UNCHANGED <<store, cloud, nextId>>

(***************************************************************************)
(* POST, step 9: the upload_stream callback.                               *)
(***************************************************************************)
\* Variant: the error is logged and the handler goes on, as DELETE does.
OnUploadError_Continue(q, error) ==
    [Logged(q, "upload_error") EXCEPT
        !.pc = "create",
        !.result = [public_id |-> q.publicId, secure_url |-> <<"https", q.publicId>>]]

\* Variant: the callback logs the error and settles nothing (no reject).
OnUploadError_NoReject(q, error) == [q EXCEPT !.pc = "hung"]

OnUploadError(q, error) ==          \* reject(error), caught by the catch block
    Caught(Logged(q, "upload_error"), error, UploadCatch(error))

OnUploadSuccess(q, result) ==       \* resolve(result)
    [Logged(q, "upload_ok") EXCEPT !.pc = "create", !.result = result]

GatewayUpload(r, errors, results) ==
    /\ req[r].pc = "upload"
    /\ \/ \E error \in errors :
            /\ Step(r, OnUploadError(req[r], error))
            /\ cloud' = cloud
       \/ \E result \in results :
            /\ Step(r, OnUploadSuccess(req[r], result))
            /\ cloud' = cloud \cup {<<req[r].kind, result.public_id>>}
    /\ UNCHANGED <<store, nextId, ops>>

(***************************************************************************)
(* POST, steps 10 to 12: prisma.<kind>.create and the 201 response.        *)
(***************************************************************************)
\* Variant: the upload promise is not awaited before the create.
UploadAwaited_Not(q) == q.pc \in {"upload", "create"}

UploadAwaited(q) == q.pc = "create"

\* Variant: a failed create rolls the upload back (the asset is destroyed).
StoreCreate_Rollback(r, faults) ==
    /\ req[r].pc # "idle"
    /\ req[r].op = "upload"
    /\ UploadAwaited(req[r])
    /\ \E fault \in faults :
        LET q == req[r]
            data == CreateData(q)
            error == IF fault THEN P1017 ELSE CreateError(store, q.kind, data)
            row == NewRow(q.kind, nextId, data)
        IN  IF error # NoError
            THEN /\ Step(r, Caught(Logged(q, "create_error"), error,
                                   UploadCatch(error)))
                 /\ cloud' = cloud \ {<<q.kind, q.result.public_id>>}
                 /\ UNCHANGED <<store, nextId>>
            ELSE /\ store' = store \cup {row}
                 /\ nextId' = nextId + 1
                 /\ cloud' = cloud
                 /\ Step(r, Reply([Logged(q, "create_ok") EXCEPT !.row = row],
                                  Response(201, "created")))
    /\ UNCHANGED ops

StoreCreate(r, faults) ==
    /\ req[r].pc # "idle"
    /\ req[r].op = "upload"
    /\ UploadAwaited(req[r])
    /\ \E fault \in faults :
        LET q == req[r]
            data == CreateData(q)
            error == IF fault THEN P1017 ELSE CreateError(store, q.kind, data)
            row == NewRow(q.kind, nextId, data)
        IN  IF error # NoError
            THEN /\ Step(r, Caught(Logged(q, "create_error"), error,
                                   UploadCatch(error)))
                 /\ UNCHANGED <<store, nextId>>
            ELSE /\ store' = store \cup {row}
                 /\ nextId' = nextId + 1
                 /\ Step(r, Reply([Logged(q, "create_ok") EXCEPT !.row = row],
                                  Response(201, "created")))
    /\ UNCHANGED <<cloud, ops>>

(***************************************************************************)
(* DELETE, steps 1 to 5: authentication, findUnique, existence, ownership. *)
(***************************************************************************)
FindUnique(rows, kind, id) == {row \in Table(rows, kind) : row.id = id}

\* Variant: the ownership check is missing.
IsOwner_Anyone(row, userId) == TRUE

IsOwner(row, userId) == row.userId = userId

\* Variant: a thrown error is swallowed, as the destroy error is.
DeleteCatch_Swallowed(error) == Response(200, "deleted")

DeleteCatch(error) == Response(500, "internal")

\* Variant: a record of somebody else is reported as missing.
DeleteCheck_Hidden(userId, found) ==
    IF found = {} \/ \E row \in found : ~IsOwner(row, userId)
    THEN Response(404, "not_found")
    ELSE Pass

\* Variant: the owner is compared before the null check; video.userId of
\* null throws a TypeError, which the outer catch answers.
DeleteCheck_OwnerFirst(userId, found) ==
    IF found = {} THEN Response(500, "internal")
    ELSE IF \E row \in found : ~IsOwner(row, userId)
         THEN Response(403, "forbidden")
    ELSE Pass

DeleteCheck(userId, found) ==
    IF found = {} THEN Response(404, "not_found")
    ELSE IF \E row \in found : ~IsOwner(row, userId)
         THEN Response(403, "forbidden")
    ELSE Pass

\* Variant: the asset is destroyed before the owner is compared.
DeleteBegin_DestroyFirst(r, kind, userId, id, faults) ==
    /\ Free(r)
    /\ ops < MaxOps
    /\ ops' = ops + 1
    /\ IF ~Authenticated(userId)
       THEN /\ Step(r, Reply(NewDelete(kind, userId),
                             Response(401, "unauthorized")))
            /\ cloud' = cloud
       ELSE \E fault \in faults :
            LET q == [NewDelete(kind, userId) EXCEPT !.id = id]
                found == FindUnique(store, kind, id)
                check == DeleteCheck(userId, found)
            IN  /\ Step(r, IF fault
                           THEN Caught(Logged(q, "find_error"), P1017,
                                       DeleteCatch(P1017))
                           ELSE IF check # Pass
                           THEN Reply([Logged(q, "find_ok") EXCEPT !.found = found],
                                      check)
                           ELSE [Logged(Logged(q, "find_ok"), "owner_ok")
                                   EXCEPT !.found = found])
                /\ cloud' = IF ~fault /\ check = Response(403, "forbidden")
                            THEN cloud \ {<<kind, row.publicId>> : row \in found}
                            ELSE cloud
    /\ UNCHANGED <<store, nextId>>

DeleteBegin(r, kind, userId, id, faults) ==
    /\ Free(r)
    /\ ops < MaxOps
    /\ ops' = ops + 1
    /\ IF ~Authenticated(userId)
       THEN Step(r, Reply(NewDelete(kind, userId),
                          Response(401, "unauthorized")))
       ELSE \E fault \in faults :
            LET q == [NewDelete(kind, userId) EXCEPT !.id = id]  \* await params
                found == FindUnique(store, kind, id)
                check == DeleteCheck(userId, found)
            IN  Step(r, IF fault
                        THEN Caught(Logged(q, "find_error"), P1017,
                                    DeleteCatch(P1017))
                        ELSE IF check # Pass
                        THEN Reply([Logged(q, "find_ok") EXCEPT !.found = found],
                                   check)
                        ELSE [Logged(Logged(q, "find_ok"), "owner_ok")
                                EXCEPT !.found = found])
    /\ UNCHANGED <<store, cloud, nextId>>

(***************************************************************************)
(* DELETE, step 6: cloudinary.uploader.destroy inside its own try/catch.   *)
(***************************************************************************)
\* Variant: the inner try/catch is missing, the outer catch answers.
OnDestroyError_Thrown(q, error) ==
    Caught(Logged(q, "destroy_error"), error, DeleteCatch(error))

OnDestroyError(q, error) ==         \* logged, "Continue anyway"
    [Logged(q, "destroy_error") EXCEPT !.pc = "delete"]

OnDestroySuccess(q) ==
    [Logged(q, "destroy_ok") EXCEPT !.pc = "delete"]

GatewayDestroy(r) ==
    /\ req[r].pc = "destroy"
    /\ \/ \E error \in GatewayDestroyErrors :
            /\ Step(r, OnDestroyError(req[r], error))
            /\ cloud' = cloud
       \/ /\ Step(r, OnDestroySuccess(req[r]))
          /\ cloud' = cloud \
                {<<req[r].kind, row.publicId>> : row \in req[r].found}
    /\ UNCHANGED <<store, nextId, ops>>

(***************************************************************************)
(* DELETE, steps 7 and 8: prisma.<kind>.delete and the 200 response.       *)
(***************************************************************************)
\* Variant: destroy is not awaited before the delete.
DestroyAwaited_Not(q) == q.pc \in {"destroy", "delete"}

DestroyAwaited(q) == q.pc = "delete"

DeleteError(rows, kind, id) ==
    IF FindUnique(rows, kind, id) = {} THEN P2025 ELSE NoError

StoreDelete(r, faults) ==
    /\ req[r].pc # "idle"
    /\ req[r].op = "delete"
    /\ DestroyAwaited(req[r])
    /\ \E fault \in faults :
        LET q == req[r]
            error == IF fault THEN P1017 ELSE DeleteError(store, q.kind, q.id)
        IN  IF error # NoError
            THEN /\ Step(r, Caught(Logged(q, "delete_error"), error,
                                   DeleteCatch(error)))
                 /\ store' = store
            ELSE /\ store' = store \ FindUnique(store, q.kind, q.id)
                 /\ Step(r, Reply(Logged(q, "delete_ok"),
                                  Response(200, "deleted")))
    /\ UNCHANGED <<cloud, nextId, ops>>

(***************************************************************************)
(* Concurrent requests over a database connection that stays up: a create  *)
(* or a delete fails only for what the tables hold (P2002, P2025, a        *)
(* missing column).  The uploads are those of the signed-in users with a   *)
(* well-formed file of the endpoint's kind, all within one millisecond;    *)
(* Cloudinary answers with a result, a timeout (499) or a network error.   *)
(* A DELETE names the id of a row of the table, or the next id, which no   *)
(* row has.                                                                *)
(***************************************************************************)
Mp4 == [type |-> "video/mp4", size |-> 15728640]
Png == [type |-> "image/png", size |-> 204800]
FormOf(kind) ==
    [file |-> IF kind = "video" THEN Mp4 ELSE Png, title |-> <<"d", " ">>]

Connected == {FALSE}
Faulty == BOOLEAN

Upload(r) ==
    \E kind \in Kinds, userId \in Users, randomString \in 1..MaxRand :
        UploadBegin(r, kind, userId, FormOf(kind), 1, randomString)

Uploaded(r) ==
    GatewayUpload(r,
        {e \in GatewayUploadErrors : Has(e, "http_code") => e.http_code = 499},
        {res \in UploadResults(req[r].kind, req[r].publicId) :
            req[r].kind = "video" => Has(res, "bytes")})

Ids(kind) == {row.id : row \in Table(store, kind)} \cup {nextId}

Delete(r, faults) ==
    \E kind \in Kinds, userId \in Callers :
        \E id \in Ids(kind) : DeleteBegin(r, kind, userId, id, faults)

Next ==
    \E r \in Slots :
        \/ Upload(r)
        \/ Uploaded(r)
        \/ StoreCreate(r, Connected)
        \/ Delete(r, Connected)
        \/ GatewayDestroy(r)
        \/ StoreDelete(r, Connected)

Spec == Init /\ [][Next]_vars

(***************************************************************************)
(* One request at a time, over a connection that may drop (P1017) at any   *)
(* call of prisma.  The uploads are those of any caller, signed in or not, *)
(* with the well-formed form or with one that breaks a validation rule.    *)
(***************************************************************************)
BadForms(kind) ==
    LET good == FormOf(kind) IN
    {[title |-> good.title],
     [good EXCEPT !.title = <<" ">>],
     [good EXCEPT !.file.type = "image/gif"],
     [good EXCEPT !.file.size = MAX_FILE_SIZE(kind) + 1]}

UploadAny(r) ==
    \E kind \in Kinds, userId \in Callers, randomString \in 1..MaxRand :
        \E form \in {FormOf(kind)} \cup BadForms(kind) :
            UploadBegin(r, kind, userId, form, 1, randomString)

NextDelete ==
    \/ UploadAny(1)
    \/ Uploaded(1)
    \/ StoreCreate(1, Faulty)
    \/ Delete(1, Faulty)
    \/ GatewayDestroy(1)
    \/ StoreDelete(1, Faulty)

SpecDelete == Init /\ [][NextDelete]_vars

(***************************************************************************)
(* One upload request with any form: any of the fields may be missing, the *)
(* file of any type and of a size around the limits, the strings blank or  *)
(* not, and any answer of Cloudinary.                                      *)
(***************************************************************************)
FileTypes ==
    VIDEO_ALLOWED_FORMATS \cup IMAGE_ALLOWED_FORMATS \cup {"image/gif", ""}
FileSizes ==
    {0, IMAGE_MAX_FILE_SIZE, IMAGE_MAX_FILE_SIZE + 1, 15728640,
     VIDEO_MAX_FILE_SIZE, VIDEO_MAX_FILE_SIZE + 1}
Files == [type : FileTypes, size : FileSizes]

AllForms ==
    LET files == {<<>>} \cup {[file |-> f] : f \in Files}
        titles == {<<>>} \cup {[title |-> t] : t \in Strings(MaxStrLen)}
        descriptions ==
            {<<>>} \cup {[description |-> d] : d \in Strings(MaxStrLen)}
    IN  {f @@ t @@ d : f \in files, t \in titles, d \in descriptions}

UploadOne ==
    /\ ops = 0
    /\ \E kind \in Kinds, userId \in Callers, form \in AllForms,
          timestamp \in 1..MaxTime, randomString \in 1..MaxRand :
            UploadBegin(1, kind, userId, form, timestamp, randomString)

UploadedOne ==
    GatewayUpload(1, GatewayUploadErrors,
                  UploadResults(req[1].kind, req[1].publicId))

NextUpload ==
    \/ UploadOne
    \/ UploadedOne
    \/ StoreCreate(1, Faulty)

SpecUpload == Init /\ [][NextUpload]_vars

(***************************************************************************)
(* Upload requests one at a time, with the progress the runtime gives: the *)
(* Cloudinary SDK calls the upload_stream callback for every call, with a  *)
(* result or with an error (its request timeout is reported as the error   *)
(* with http_code 499), and prisma settles every create.                   *)
(***************************************************************************)
NextTimely ==
    \/ UploadAny(1)
    \/ UploadedOne
    \/ StoreCreate(1, Faulty)

SpecTimely ==
    /\ Init /\ [][NextTimely]_vars
    /\ WF_vars(UploadedOne)
    /\ WF_vars(StoreCreate(1, Faulty))

(***************************************************************************)
(* proxy.ts: the Clerk middleware.                                         *)
(* A path is the sequence of the pieces it is written with, so that the    *)
(* pattern for /api/video matching /api/video-upload is a matter of        *)
(* prefixes: /api/video-upload/1 is the sequence of "/", "api", "/",       *)
(* "video", "-upload", "/", "1".  A pattern that ends with a wildcard      *)
(* group matches the paths that start with what precedes the group; the    *)
(* pattern "/" matches "/" alone.                                          *)
(***************************************************************************)
StartsWith(path, prefix) ==
    /\ Len(path) >= Len(prefix)
    /\ SubSeq(path, 1, Len(prefix)) = prefix

MatchesAny(path, prefixes) == \E prefix \in prefixes : StartsWith(path, prefix)

isAuthRoute(path) ==
    MatchesAny(path, {<<"/", "sign-in">>, <<"/", "sign-up">>})

isPublicRoute(path) == path = <<"/">>

PrivateRoutes ==
    {<<"/", "dashboard">>,
     <<"/", "video", "-upload">>,
     <<"/", "social-share">>,
     <<"/", "api", "/", "video">>,
     <<"/", "api", "/", "image", "-upload">>,
     <<"/", "api", "/", "video", "-upload">>}

isPrivateRoute(path) == MatchesAny(path, PrivateRoutes)

\* config.matcher: Next.js internals and static files are skipped, the API
\* routes never are.
StaticFiles == {"logo.png"}

Matched(path) ==
    \/ StartsWith(path, <<"/", "api">>)
    \/ /\ ~StartsWith(path, <<"/", "_next">>)
       /\ \A i \in DOMAIN path : path[i] \notin StaticFiles

Redirect(to, params) == [type |-> "redirect", to |-> to, params |-> params]
Continue == [type |-> "next"]

clerkMiddleware(userId, path) ==
    IF userId # NoUser /\ isAuthRoute(path)
    THEN Redirect(<<"/", "dashboard">>, <<>>)
    ELSE IF isPrivateRoute(path) /\ userId = NoUser
    THEN Redirect(<<"/", "sign-in">>, [redirect_url |-> path])
    ELSE Continue       \* auth.protect() lets a signed-in user through

(***************************************************************************)
(* The requests the middleware sees: the pages and API routes of the       *)
(* application, with and without a sub-path, by any caller.                *)
(***************************************************************************)
RouteNames ==
    {<<>>, <<"dashboard">>, <<"video">>, <<"image">>, <<"video", "-upload">>,
     <<"image", "-upload">>, <<"social-share">>, <<"sign-in">>, <<"sign-up">>,
     <<"_next">>, <<"logo.png">>}

RECURSIVE SubPaths(_)
SubPaths(n) ==
    IF n = 0 THEN {<<>>}
    ELSE SubPaths(n - 1) \cup
         {sub \o <<"/", seg>> : sub \in SubPaths(n - 1), seg \in {"1", "x"}}

Paths ==
    {root \o name \o sub :
        root \in {<<"/">>, <<"/", "api", "/">>},
        name \in RouteNames,
        sub \in SubPaths(MaxSub)}

Proxy ==
    /\ \E userId \in Callers, path \in Paths :
        edge' = [userId |-> userId, path |-> path,
                 answer |-> IF Matched(path)
                            THEN clerkMiddleware(userId, path)
                            ELSE Continue]
    /\ UNCHANGED <<server, refs, dash, page>>

NextProxy == Proxy

SpecProxy == Init /\ [][NextProxy]_vars

(***************************************************************************)
(* GET /api/video and GET /api/image: the list of the caller's media.      *)
(* listByOwner(ownerId, kind) of the specification: prisma findMany with   *)
(* where: { userId } and orderBy: { createdAt: "desc" }.  A row is stamped *)
(* with createdAt when it is inserted (DEFAULT CURRENT_TIMESTAMP), so the  *)
(* stamps grow with the rows' order of insertion, which is what id counts  *)
(* here.                                                                   *)
(***************************************************************************)
createdAt(row) == row.id

RECURSIVE OrderByCreatedAtDesc(_)
OrderByCreatedAtDesc(rows) ==
    IF rows = {} THEN <<>>
    ELSE LET newest == CHOOSE row \in rows :
                           \A other \in rows : createdAt(other) <= createdAt(row)
         IN <<newest>> \o OrderByCreatedAtDesc(rows \ {newest})

\* Variant: findMany without the where clause.
listByOwner_Everyone(rows, ownerId, kind) ==
    OrderByCreatedAtDesc(Table(rows, kind))

listByOwner(rows, ownerId, kind) ==
    OrderByCreatedAtDesc(
        {row \in Table(rows, kind) : Has(row, "userId") /\ row.userId = ownerId})

NewList(kind, userId) ==
    [pc |-> "done", op |-> "list", kind |-> kind, userId |-> userId,
     resp |-> Pass, body |-> <<>>]

List(kind, userId) ==
    /\ sent' = [NewList(kind, userId) EXCEPT
                    !.resp = Response(200, "list"),
                    !.body = listByOwner(store, userId, kind)]
    /\ UNCHANGED <<store, cloud, req, nextId, ops>>
    /\ UNCHANGED client

ListAny == \E kind \in Kinds, userId \in Users : List(kind, userId)

(***************************************************************************)
(* One request at a time over a connection that stays up: uploads of the   *)
(* signed-in users at different milliseconds, deletes, and lists of what   *)
(* the tables hold.                                                        *)
(***************************************************************************)
UploadAt(r) ==
    \E kind \in Kinds, userId \in Users, timestamp \in 0..MaxTime :
        UploadBegin(r, kind, userId, FormOf(kind), timestamp, 1)

NextList ==
    \/ UploadAt(1)
    \/ Uploaded(1)
    \/ StoreCreate(1, Connected)
    \/ Delete(1, Connected)
    \/ GatewayDestroy(1)
    \/ StoreDelete(1, Connected)
    \/ ListAny

SpecList == Init /\ [][NextList]_vars

(***************************************************************************)
(* POST step 8, as text: the template literal                              *)
(* `videos/${userId}/${timestamp}-${randomString}`.  timestamp is          *)
(* Date.now(), a number written in decimal; randomString is                *)
(* Math.random().toString(36).substring(2, 15), digits and lower-case      *)
(* letters, possibly none.  A user id is any non-empty string here, with   *)
(* the separators of the template among its characters.                    *)
(***************************************************************************)
Digit(n) == <<"0", "1", "2", "3", "4", "5", "6", "7", "8", "9">>[n + 1]

RECURSIVE NumberToString(_)
NumberToString(n) ==
    IF n < 10 THEN <<Digit(n)>>
    ELSE NumberToString(n \div 10) \o <<Digit(n % 10)>>

Folder(kind) ==
    IF kind = "video" THEN <<"v", "i", "d", "e", "o", "s">>
    ELSE <<"i", "m", "a", "g", "e", "s">>

\* Variant: nothing separates the user id from the timestamp.
TemplateLiteral_NoSeparator(kind, userId, timestamp, randomString) ==
    Folder(kind) \o <<"/">> \o userId \o NumberToString(timestamp)
        \o <<"-">> \o randomString

TemplateLiteral(kind, userId, timestamp, randomString) ==
    Folder(kind) \o <<"/">> \o userId \o <<"/">> \o NumberToString(timestamp)
        \o <<"-">> \o randomString

UserIds == UNION {[1..n -> {"u", "1", "/", "-"}] : n \in 1..MaxIdLen}
Timestamps == {1, 11}
RandomStrings == {<<>>, <<"1">>, <<"u">>}

GenerateRef ==
    /\ Cardinality(refs) < 2
    /\ \E kind \in Kinds, userId \in UserIds, timestamp \in Timestamps,
          randomString \in RandomStrings :
        refs' = refs \cup
            {[kind |-> kind, userId |-> userId, timestamp |-> timestamp,
              randomString |-> randomString,
              publicId |-> TemplateLiteral(kind, userId, timestamp,
                                           randomString)]}
    /\ UNCHANGED <<server, edge, dash, page>>

NextRefs == GenerateRef

SpecRefs == Init /\ [][NextRefs]_vars

(***************************************************************************)
(* The dashboard (dashboard/page.tsx).  Media are named by their ids; the  *)
(* ids are Prisma's generated strings, so no video shares its id with an   *)
(* image.  The answers of the API are inputs: a fetch resolves with        *)
(* response.ok, resolves with an error status, or rejects.                 *)
(***************************************************************************)
VideoIds == {1, 2}
ImageIds == {3}
Outcomes == {"ok", "error", "rejected"}

Loaded(ids) ==
    {<<>>} \cup {<<id>> : id \in ids}
        \cup {pair \in ids \X ids : pair[1] # pair[2]}

\* useEffect on mount: fetchMedia
FetchMedia ==
    /\ dash.loading
    /\ \E ok \in BOOLEAN, videosData \in Loaded(VideoIds),
          imagesData \in Loaded(ImageIds) :
        dash' = IF ok
                THEN [dash EXCEPT !.videos = videosData,
                                  !.images = imagesData,
                                  !.loading = FALSE]
                ELSE [dash EXCEPT !.error = <<"Failed to fetch media">>,
                                  !.loading = FALSE]
    /\ UNCHANGED <<server, edge, refs, page>>

Item(id, type) == [id |-> id, type |-> type]

Cards ==
    {Item(dash.videos[i], "video") : i \in DOMAIN dash.videos}
        \cup {Item(dash.images[i], "image") : i \in DOMAIN dash.images}

\* the trash button of a card; the open dialog covers the cards
ClickTrash ==
    /\ ~dash.loading
    /\ dash.itemToDelete = null
    /\ \E item \in Cards :
        dash' = [dash EXCEPT !.itemToDelete = item, !.handled = null]
    /\ UNCHANGED <<server, edge, refs, page>>

\* DeleteConfirmDialog: Cancel, the X, or a click outside the box
onClose ==
    /\ dash.itemToDelete # null
    /\ dash' = [dash EXCEPT !.itemToDelete = null, !.handled = null]
    /\ UNCHANGED <<server, edge, refs, page>>

\* handleDelete up to its await of fetch; the call keeps the itemToDelete of
\* the render it was made in.
onConfirm ==
    /\ dash.itemToDelete # null         \* the dialog is rendered
    /\ Len(dash.deletes) < MaxConc
    /\ dash' = [dash EXCEPT !.isDeleting = TRUE,
                            !.deletes = Append(@, dash.itemToDelete),
                            !.handled = null]
    /\ UNCHANGED <<server, edge, refs, page>>

RECURSIVE filter(_, _)
filter(list, id) ==                 \* prev.filter((v) => v.id !== id)
    IF list = <<>> THEN <<>>
    ELSE IF Head(list) = id THEN filter(Tail(list), id)
    ELSE <<Head(list)>> \o filter(Tail(list), id)

Without(seq, i) == SubSeq(seq, 1, i - 1) \o SubSeq(seq, i + 1, Len(seq))

\* Variant: the item is taken off the list whatever the response is.
handleDelete_Optimistic(i, outcome) ==
    LET itemToDelete == dash.deletes[i]
        after == [dash EXCEPT !.deletes = Without(@, i),
                              !.handled = [item |-> itemToDelete,
                                           outcome |-> outcome],
                              !.isDeleting = FALSE]
    IN  IF itemToDelete.type = "video"
        THEN [after EXCEPT !.videos = filter(@, itemToDelete.id),
                           !.itemToDelete = null]
        ELSE [after EXCEPT !.images = filter(@, itemToDelete.id),
                           !.itemToDelete = null]

\* handleDelete from the answer of fetch to the end of finally
handleDelete(i, outcome) ==
    LET itemToDelete == dash.deletes[i]
        after == [dash EXCEPT !.deletes = Without(@, i),
                              !.handled = [item |-> itemToDelete,
                                           outcome |-> outcome],
                              !.isDeleting = FALSE]        \* finally
    IN  IF outcome # "ok"
        THEN after                                          \* catch: alert
        ELSE IF itemToDelete.type = "video"
        THEN [after EXCEPT !.videos = filter(@, itemToDelete.id),
                           !.itemToDelete = null]
        ELSE [after EXCEPT !.images = filter(@, itemToDelete.id),
                           !.itemToDelete = null]

DeleteAnswered ==
    /\ \E i \in DOMAIN dash.deletes, outcome \in Outcomes :
        dash' = handleDelete(i, outcome)
    /\ UNCHANGED <<server, edge, refs, page>>

NextDash ==
    \/ FetchMedia
    \/ ClickTrash
    \/ onClose
    \/ onConfirm
    \/ DeleteAnswered

SpecDash == Init /\ [][NextDash]_vars

(***************************************************************************)
(* The upload pages (video-upload/page.tsx, image-upload/page.tsx).  The   *)
(* two pages are the same component but for their constants and for the    *)
(* preview the image page renders with a FileReader.  The drag highlight   *)
(* (isDragging) is left out: it is read by the class name only.            *)
(***************************************************************************)
PAGE_VIDEO_MAX_FILE_SIZE == 20 * 1024 * 1024
PAGE_IMAGE_MAX_FILE_SIZE == 10 * 1024 * 1024
PAGE_VIDEO_ALLOWED_FORMATS ==
    {"video/mp4", "video/mpeg", "video/quicktime", "video/x-msvideo",
     "video/webm", "video/x-matroska"}
PAGE_IMAGE_ALLOWED_FORMATS == {"image/jpeg", "image/png", "image/webp"}

\* Variant: the image page takes files up to the limit of the video page.
PAGE_MAX_FILE_SIZE_Same(kind) == PAGE_VIDEO_MAX_FILE_SIZE

PAGE_MAX_FILE_SIZE(kind) ==
    IF kind = "video" THEN PAGE_VIDEO_MAX_FILE_SIZE
    ELSE PAGE_IMAGE_MAX_FILE_SIZE
PAGE_ALLOWED_FORMATS(kind) ==
    IF kind = "video" THEN PAGE_VIDEO_ALLOWED_FORMATS
    ELSE PAGE_IMAGE_ALLOWED_FORMATS

validateFile(kind, file) ==         \* the message, or "" for null
    IF file.type \notin PAGE_ALLOWED_FORMATS(kind) THEN "Invalid file format"
    ELSE IF file.size > PAGE_MAX_FILE_SIZE(kind) THEN "File size exceeds limit"
    ELSE ""

Mount ==
    /\ page = Unmounted
    /\ \E kind \in Kinds : page' = UploadPage(kind)
    /\ UNCHANGED <<server, edge, refs, dash>>

\* handleFileChange and handleDrop: the same statements
handleFileChange(selectedFile) ==
    LET error == validateFile(page.kind, selectedFile)
        seen == [page EXCEPT !.picked = selectedFile]
    IN  IF error # ""
        THEN [seen EXCEPT !.errorMessage = error, !.uploadState = "error"]
        ELSE [seen EXCEPT !.file = selectedFile,
                          !.errorMessage = "",
                          !.uploadState = "idle",
                          !.readers = IF page.kind = "image"
                                      THEN Append(@, selectedFile) ELSE @]

Selected(files) ==
    /\ page # Unmounted
    /\ \E selectedFile \in files :
        /\ page.kind = "image"
            /\ validateFile(page.kind, selectedFile) = ""
            => Len(page.readers) < MaxReaders
        /\ page' = handleFileChange(selectedFile)
    /\ UNCHANGED <<server, edge, refs, dash>>

handleDrop(droppedFile) == handleFileChange(droppedFile)

Dropped(files) ==
    /\ page # Unmounted
    /\ \E droppedFile \in files :
        /\ page.kind = "image"
            /\ validateFile(page.kind, droppedFile) = ""
            => Len(page.readers) < MaxReaders
        /\ page' = handleDrop(droppedFile)
    /\ UNCHANGED <<server, edge, refs, dash>>

\* reader.onloadend
PreviewLoaded ==
    /\ page # Unmounted
    /\ page.readers # <<>>
    /\ \E i \in DOMAIN page.readers :
        page' = [page EXCEPT !.preview = page.readers[i],
                             !.readers = Without(@, i)]
    /\ UNCHANGED <<server, edge, refs, dash>>

\* the inputs of title and description are disabled while uploading
Typed == Strings(1)

TitleTyped ==
    /\ page # Unmounted
    /\ page.uploadState # "uploading"
    /\ \E value \in Typed : page' = [page EXCEPT !.title = value]
    /\ UNCHANGED <<server, edge, refs, dash>>

DescriptionTyped ==
    /\ page # Unmounted
    /\ page.uploadState # "uploading"
    /\ \E value \in Typed : page' = [page EXCEPT !.description = value]
    /\ UNCHANGED <<server, edge, refs, dash>>

\* handleUpload up to its await of fetch
FormData ==
    [file |-> page.file, title |-> trim(page.title)] @@
    (IF trim(page.description) # <<>>
     THEN [description |-> trim(page.description)] ELSE <<>>)

handleUpload ==
    IF page.file = null \/ trim(page.title) = <<>>
    THEN [page EXCEPT
            !.errorMessage = "Please select a file and provide a title",
            !.uploadState = "error"]
    ELSE LET progressInterval == page.started + 1 IN
         [page EXCEPT
            !.uploadState = "uploading",
            !.uploadProgress = 0,
            !.errorMessage = "",
            !.started = progressInterval,
            !.intervals = @ \cup {progressInterval},
            !.fetches = Append(@, [formData |-> FormData,
                                   progressInterval |-> progressInterval,
                                   pc |-> "fetch"])]

\* the Upload button is rendered unless uploadState is success, and disabled
\* without a file, without a title, and while uploading
UploadClicked ==
    /\ page # Unmounted
    /\ page.uploadState \notin {"success", "uploading"}
    /\ page.file # null
    /\ trim(page.title) # <<>>
    /\ page.started < MaxUploads
    /\ page' = handleUpload
    /\ UNCHANGED <<server, edge, refs, dash>>

\* the callback of setInterval
Tick ==
    /\ page # Unmounted
    /\ page.intervals # {}
    /\ page' = [page EXCEPT !.uploadProgress = IF @ >= 90 THEN @ ELSE @ + 10]
    /\ UNCHANGED <<server, edge, refs, dash>>

\* catch (error)
UploadFailed(after) ==
    [after EXCEPT !.errorMessage = "Upload failed",
                  !.uploadState = "error",
                  !.uploadProgress = 0]

\* handleUpload from the answer of fetch to its await of response.json()
FetchSettled(i, outcome) ==
    LET call == page.fetches[i] IN
    IF outcome = "rejected"
    THEN UploadFailed([page EXCEPT !.fetches = Without(@, i)])
    ELSE [page EXCEPT !.intervals = @ \ {call.progressInterval},
                      !.uploadProgress = 100,
                      !.fetches[i].pc = outcome]

FetchAnswered ==
    /\ page # Unmounted
    /\ \E i \in DOMAIN page.fetches, outcome \in Outcomes :
        /\ page.fetches[i].pc = "fetch"
        /\ page' = FetchSettled(i, outcome)
    /\ UNCHANGED <<server, edge, refs, dash>>

\* handleUpload after response.json(): the error is thrown, or the success
\* is shown and the reset of the form is scheduled
JsonRead(i) ==
    LET call == page.fetches[i]
        after == [page EXCEPT !.fetches = Without(@, i)]
    IN  IF call.pc = "error"
        THEN UploadFailed(after)
        ELSE [after EXCEPT !.uploaded = call.formData,
                           !.uploadState = "success",
                           !.timeouts = @ + 1]

BodyRead ==
    /\ page # Unmounted
    /\ \E i \in DOMAIN page.fetches :
        /\ page.fetches[i].pc \in {"ok", "error"}
        /\ page' = JsonRead(i)
    /\ UNCHANGED <<server, edge, refs, dash>>

\* the callback of setTimeout(..., 2000)
ResetForm ==
    /\ page # Unmounted
    /\ page.timeouts > 0
    /\ page' = [page EXCEPT !.file = null,
                            !.title = <<>>,
                            !.description = <<>>,
                            !.preview = null,
                            !.timeouts = @ - 1]
    /\ UNCHANGED <<server, edge, refs, dash>>

handleReset ==
    [page EXCEPT !.file = null, !.title = <<>>, !.description = <<>>,
                 !.preview = null, !.uploadState = "idle",
                 !.uploadProgress = 0, !.errorMessage = "",
                 !.uploaded = null]

\* "Upload Another" is rendered on success; "Clear" with a file, and is
\* disabled while uploading
ResetClicked ==
    /\ page # Unmounted
    /\ \/ page.uploadState = "success"
       \/ page.file # null /\ page.uploadState # "uploading"
    /\ page' = handleReset
    /\ UNCHANGED <<server, edge, refs, dash>>

(***************************************************************************)
(* An upload page in use: the user picks the well-formed file of the       *)
(* page's kind or one that is too large.                                   *)
(***************************************************************************)
Picks ==
    {FormOf(page.kind).file,
     [FormOf(page.kind).file EXCEPT !.size = MAX_FILE_SIZE(page.kind) + 1]}

NextPage ==
    \/ Mount
    \/ Selected(Picks)
    \/ Dropped(Picks)
    \/ PreviewLoaded
    \/ TitleTyped
    \/ DescriptionTyped
    \/ UploadClicked
    \/ Tick
    \/ FetchAnswered
    \/ BodyRead
    \/ ResetForm
    \/ ResetClicked

SpecPage == Init /\ [][NextPage]_vars

(***************************************************************************)
(* The file pickers alone, with a file of any type and size.               *)
(***************************************************************************)
NextValidate ==
    \/ Mount
    \/ Selected(Files)
    \/ Dropped(Files)
    \/ PreviewLoaded

SpecValidate == Init /\ [][NextValidate]_vars

(***************************************************************************)
(* Vocabulary of the properties.                                           *)
(***************************************************************************)
In(log, event) == \E i \in DOMAIN log : log[i] = event
Last(log) == log[Len(log)]
Answered(op) == sent.pc = "done" /\ sent.op = op
InFlight(r, op) == req[r].pc # "idle" /\ req[r].op = op
(***************************************************************************)
(* C1.  In both upload endpoints, when the Cloudinary upload fails (the    *)
(* upload_stream callback reports an error) the request is over: it is     *)
(* answered at once with an error status, it has issued no create and has  *)
(* inserted no row, so the tables are as they were before the request.     *)
(***************************************************************************)
C1_FailedUploadCreatesNothing ==
    /\ \A r \in Slots :
        InFlight(r, "upload") => ~In(req[r].log, "upload_error")
    /\ Answered("upload") /\ In(sent.log, "upload_error") =>
        /\ sent.log = <<"upload_error">>
        /\ sent.row = <<>>
        /\ sent.resp.status >= 400

C1_Witness ==
    /\ Answered("upload") /\ In(sent.log, "upload_error")
    /\ sent.kind = "image"
    /\ store # {}

(***************************************************************************)
(* C2.  In every execution, with requests running concurrently, a create   *)
(* is issued by a request only after its own Cloudinary upload has         *)
(* completed successfully, and the publicId of the row it inserts is the   *)
(* public_id that this upload returned.                                    *)
(***************************************************************************)
CreateAfterUpload(q) ==
    /\ \A i \in DOMAIN q.log :
        q.log[i] \in {"create_ok", "create_error"} =>
            \E j \in 1..(i - 1) : q.log[j] = "upload_ok"
    /\ q.row # <<>> =>
        /\ In(q.log, "create_ok")
        /\ Has(q.result, "public_id")
        /\ q.row.publicId = q.result.public_id

C2_CreateOnlyAfterUpload ==
    /\ \A r \in Slots : InFlight(r, "upload") => CreateAfterUpload(req[r])
    /\ Answered("upload") => CreateAfterUpload(sent)

C2_Witness ==
    /\ Answered("upload") /\ sent.row # <<>> /\ sent.row \in store
    /\ \E r \in Slots : InFlight(r, "upload") /\ req[r].pc = "create"

(***************************************************************************)
(* C3.  For every valid upload request of either kind by an authenticated  *)
(* caller, the row that the request inserts has userId equal to the        *)
(* caller's identity: the data it hands to create carries that userId.     *)
(***************************************************************************)
C3_OwnerIsCaller ==
    \A r \in Slots :
        InFlight(r, "upload") /\ req[r].pc = "create" =>
            /\ Has(CreateData(req[r]), "userId")
            /\ CreateData(req[r]).userId = req[r].userId

(***************************************************************************)
(* C4.  In any interleaving of upload and delete requests of several       *)
(* callers, a row leaves the table (or changes) only in the delete step of *)
(* a DELETE request for that row whose caller is the row's userId.         *)
(***************************************************************************)
C4_OnlyOwnerRemoves ==
    [][\A row \in store :
        row \notin store' =>
            \E r \in Slots :
                /\ InFlight(r, "delete") /\ req[r].pc = "delete"
                /\ req'[r].pc = "idle"
                /\ req[r].kind = row.kind /\ req[r].id = row.id
                /\ req[r].userId = row.userId]_vars

C4_Witness ==
    /\ Answered("delete") /\ sent.resp.status = 200
    /\ sent.found # {} /\ sent.found \cap store = {}
    /\ \E r \in Slots : req[r].pc # "idle" /\ req[r].userId \notin {sent.userId, NoUser}

(***************************************************************************)
(* C5.  A DELETE request for an existing record by an authenticated caller *)
(* who is not its owner is answered 403 in the step that read the record:  *)
(* that step leaves the tables and Cloudinary as they are (the record is   *)
(* still there), and the request has called neither destroy nor delete.    *)
(***************************************************************************)
NotTheOwner(q) == \E row \in q.found : row.userId # q.userId

C5_ForbiddenLeavesRecord ==
    /\ [](/\ \A r \in Slots : InFlight(r, "delete") => ~NotTheOwner(req[r])
          /\ Answered("delete") /\ NotTheOwner(sent) =>
                /\ sent.resp = Response(403, "forbidden")
                /\ sent.log = <<"find_ok">>)
    /\ [][sent'.pc = "done" /\ ops' = ops + 1 /\ sent'.resp.status = 403 =>
            /\ store' = store /\ cloud' = cloud
            /\ sent'.found # {} /\ sent'.found \subseteq store']_vars

C5_Witness ==
    /\ Answered("delete") /\ NotTheOwner(sent)
    /\ sent.resp.status = 403
    /\ sent.found \subseteq store

DeleteOrder(q) ==
    \A i \in DOMAIN q.log :
        /\ q.log[i] \in {"destroy_ok", "destroy_error"} =>
            \E j \in 1..(i - 1) : q.log[j] = "owner_ok"
        /\ q.log[i] \in {"delete_ok", "delete_error"} =>
            \E j \in 1..(i - 1) : q.log[j] \in {"destroy_ok", "destroy_error"}

C7_DeleteStepsInOrder ==
    /\ \A r \in Slots : InFlight(r, "delete") => DeleteOrder(req[r])
    /\ Answered("delete") => DeleteOrder(sent)

C7_Witness ==
    /\ Answered("delete")
    /\ sent.log = <<"find_ok", "owner_ok", "destroy_ok", "delete_ok">>

(***************************************************************************)
(* C8.  When two DELETE requests of the owner for the same record both     *)
(* pass the existence and ownership checks, the one that reaches the       *)
(* Store delete second (the row is gone by then) is answered NotFound      *)
(* (404), not a server error.                                              *)
(***************************************************************************)
C8_SecondDeleteNotFound ==
    Answered("delete") /\ sent.error = P2025 =>
        sent.resp.status = 404

(***************************************************************************)
(* C9.  An upload request of an authenticated caller that breaks several   *)
(* validation rules is answered with the error of the first failing check  *)
(* in the order: missing file, missing title (absent, or nothing but white *)
(* space), invalid format, too large.  A blank title with an invalid       *)
(* format is answered "title is required".                                 *)
(***************************************************************************)
BlankTitle(form) ==
    ~Has(form, "title") \/ \A i \in DOMAIN form.title : form.title[i] \in WhiteSpace

ClaimedFormats(kind) ==
    IF kind = "image"
    THEN {"image/jpeg", "image/png", "image/webp"}
    ELSE {"video/mp4", "video/mpeg", "video/quicktime", "video/x-msvideo",
          "video/webm", "video/x-matroska"}

ClaimedLimit(kind) == IF kind = "image" THEN 10485760 ELSE 20971520

WrongFormat(q) == Has(q.form, "file") /\ q.form.file.type \notin ClaimedFormats(q.kind)
TooLarge(q) == Has(q.form, "file") /\ q.form.file.size > ClaimedLimit(q.kind)

C9_FirstFailingCheckReported ==
    Answered("upload") /\ sent.userId # NoUser =>
        LET nofile == ~Has(sent.form, "file")
            blank == BlankTitle(sent.form)
        IN  /\ nofile => sent.resp = Response(400, "no_file")
            /\ ~nofile /\ blank => sent.resp = Response(400, "no_title")
            /\ ~nofile /\ ~blank /\ WrongFormat(sent) =>
                    sent.resp = Response(400, "invalid_format")
            /\ ~nofile /\ ~blank /\ ~WrongFormat(sent) /\ TooLarge(sent) =>
                    sent.resp = Response(400, "too_large")
            /\ ~nofile /\ ~blank /\ ~WrongFormat(sent) /\ ~TooLarge(sent) =>
                    sent.resp.body \notin
                        {"no_file", "no_title", "invalid_format", "too_large"}

C9_Witness ==
    /\ Answered("upload") /\ sent.userId # NoUser
    /\ Has(sent.form, "file") /\ Has(sent.form, "title")
    /\ sent.form.title = <<" ", " ">>
    /\ WrongFormat(sent) /\ TooLarge(sent)
    /\ sent.resp = Response(400, "no_title")

(***************************************************************************)
(* C10.  An upload request of an authenticated caller with a file and a    *)
(* non-blank title whose MIME type is outside the allowed set of its kind  *)
(* is answered 400 "invalid format", and upload_stream is never called for *)
(* it: no request with such a file is ever waiting for Cloudinary.         *)
(***************************************************************************)
C10_InvalidFormatRejected ==
    /\ \A r \in Slots : InFlight(r, "upload") => ~WrongFormat(req[r])
    /\ Answered("upload") /\ sent.userId # NoUser /\ Has(sent.form, "file")
            /\ ~BlankTitle(sent.form) /\ WrongFormat(sent) =>
        /\ sent.resp = Response(400, "invalid_format")
        /\ sent.log = <<>>
        /\ sent.publicId = <<>>
        /\ cloud = {}

C10_Witness ==
    /\ Answered("upload") /\ sent.userId # NoUser /\ sent.kind = "image"
    /\ Has(sent.form, "file") /\ sent.form.file.type = "image/gif"
    /\ ~BlankTitle(sent.form)
    /\ sent.resp = Response(400, "invalid_format")
    /\ cloud = {}

(***************************************************************************)
(* C11.  An upload request of an authenticated caller with a file, a       *)
(* non-blank title and an allowed format is answered 400 "too large"       *)
(* exactly when the size of the file exceeds the limit of its kind         *)
(* (10485760 bytes for images, 20971520 for videos); it is then answered   *)
(* before upload_stream is called.  A file of exactly the limit is not     *)
(* turned away: no request waiting for Cloudinary has a file over the      *)
(* limit, and every file up to the limit gets there.                       *)
(***************************************************************************)
SizeChecked(q) ==
    /\ q.userId # NoUser /\ Has(q.form, "file")
    /\ ~BlankTitle(q.form) /\ ~WrongFormat(q)

C11_TooLargeExactlyOverLimit ==
    /\ \A r \in Slots : InFlight(r, "upload") => ~TooLarge(req[r])
    /\ Answered("upload") /\ SizeChecked(sent) =>
        /\ sent.resp = Response(400, "too_large") <=> TooLarge(sent)
        /\ TooLarge(sent) =>
            /\ sent.log = <<>>
            /\ sent.publicId = <<>>
            /\ cloud = {}
        /\ ~TooLarge(sent) => sent.log # <<>> /\ sent.publicId # <<>>

C11_Witness ==
    /\ Answered("upload") /\ SizeChecked(sent)
    /\ sent.kind = "image" /\ sent.form.file.size = 10485761
    /\ sent.resp = Response(400, "too_large")
    /\ cloud = {}

(***************************************************************************)
(* C12.  A DELETE request is checked in the order authentication,          *)
(* existence, ownership.  The step that receives it answers 401 when there *)
(* is no caller identity, whatever the tables hold; otherwise 404 when the *)
(* table has no row with the id; otherwise 403 when the row's userId is    *)
(* not the caller.  Only a request of the owner of an existing row goes on *)
(* to destroy.                                                             *)
(***************************************************************************)
RowsWithId(rows, q) == {row \in rows : row.kind = q.kind /\ row.id = q.id}

C12_DeleteChecksInOrder ==
    /\ [](\A r \in Slots : InFlight(r, "delete") =>
            /\ req[r].userId # NoUser
            /\ req[r].found # {}
            /\ \A row \in req[r].found : row.userId = req[r].userId)
    /\ [][ops' = ops + 1 /\ sent'.pc = "done" /\ sent'.op = "delete" =>
            /\ store' = store
            /\ IF sent'.userId = NoUser
               THEN sent'.resp = Response(401, "unauthorized")
               ELSE IF RowsWithId(store, sent') = {}
               THEN sent'.resp = Response(404, "not_found")
               ELSE /\ \E row \in RowsWithId(store, sent') :
                        row.userId # sent'.userId
                    /\ sent'.resp = Response(403, "forbidden")]_vars

C12_Witness ==
    /\ Answered("delete") /\ sent.userId = NoUser
    /\ sent.resp = Response(401, "unauthorized")
    /\ sent.log = <<>>
    /\ Table(store, sent.kind) # {}

(***************************************************************************)
(* C13.  A request that ends in an authentication, validation, not-found   *)
(* or forbidden error has no side effect: it is answered by the step that  *)
(* received it, that step leaves the tables and Cloudinary as they are,    *)
(* and the request has called neither upload_stream nor destroy nor a      *)
(* write of prisma.                                                        *)
(***************************************************************************)
Rejections ==
    {"unauthorized", "no_file", "no_title", "invalid_format", "too_large",
     "not_found", "forbidden"}

C13_RejectionHasNoSideEffect ==
    /\ [](sent.pc = "done" /\ sent.resp.body \in Rejections =>
            /\ sent.resp.status \in {401, 400, 404, 403}
            /\ sent.log \in {<<>>, <<"find_ok">>})
    /\ [][sent'.pc = "done" /\ sent'.resp.body \in Rejections =>
            /\ ops' = ops + 1
            /\ store' = store
            /\ cloud' = cloud
            /\ nextId' = nextId]_vars

C13_Witness ==
    /\ Answered("upload") /\ sent.resp = Response(400, "too_large")
    /\ sent.log = <<>>
    /\ store # {} /\ cloud # {}

(***************************************************************************)
(* C14.  An upload endpoint answers a failed request only with 401, 400 or *)
(* 500, and every failure of the Cloudinary upload with 500.               *)
(***************************************************************************)
C14_UploadFailureStatuses ==
    Answered("upload") /\ sent.resp.status # 201 =>
        /\ sent.resp.status \in {401, 400, 500}
        /\ In(sent.log, "upload_error") => sent.resp.status = 500

(***************************************************************************)
(* C15.  When prisma create fails after the Cloudinary upload succeeded,   *)
(* the upload request is answered 500 by that very step: the create is not *)
(* tried again, nothing is rolled back (the step leaves Cloudinary as it   *)
(* is, so the uploaded asset stays) and no row is inserted.                *)
(***************************************************************************)
CreateFailed(q) == q.pc = "done" /\ q.op = "upload" /\ In(q.log, "create_error")

C15_CreateFailureIsTerminal ==
    /\ [](CreateFailed(sent) =>
            /\ sent.resp.status = 500
            /\ sent.log = <<"upload_ok", "create_error">>
            /\ sent.row = <<>>
            /\ <<sent.kind, sent.result.public_id>> \in cloud)
    /\ [](\A r \in Slots :
            InFlight(r, "upload") => ~In(req[r].log, "create_error"))
    /\ [][CreateFailed(sent') =>
            /\ store' = store
            /\ cloud' = cloud
            /\ nextId' = nextId]_vars

C15_Witness ==
    /\ CreateFailed(sent)
    /\ sent.kind = "video" /\ sent.error = P1017
    /\ sent.resp = Response(500, "database")
    /\ <<sent.kind, sent.result.public_id>> \in cloud
    /\ \A row \in store : row.publicId # sent.result.public_id

(***************************************************************************)
(* C16.  When prisma delete fails in a DELETE request, the request is      *)
(* answered 500 by that step and the step removes nothing: a row that was  *)
(* in the table is still there, also when destroy has already removed its  *)
(* asset.                                                                  *)
(***************************************************************************)
DeleteFailed(q) == q.pc = "done" /\ q.op = "delete" /\ In(q.log, "delete_error")

C16_DeleteFailureKeepsRecord ==
    /\ [](DeleteFailed(sent) =>
            /\ sent.resp = Response(500, "internal")
            /\ Last(sent.log) = "delete_error")
    /\ [](\A r \in Slots :
            InFlight(r, "delete") => ~In(req[r].log, "delete_error"))
    /\ [][DeleteFailed(sent') => store' = store /\ cloud' = cloud]_vars

C16_Witness ==
    /\ DeleteFailed(sent)
    /\ sent.log = <<"find_ok", "owner_ok", "destroy_ok", "delete_error">>
    /\ sent.resp.status = 500
    /\ sent.found # {} /\ sent.found \subseteq store
    /\ \A row \in sent.found : <<row.kind, row.publicId>> \notin cloud

(***************************************************************************)
(* C17.  In every reachable state, every row has its asset on Cloudinary,  *)
(* unless the row is the target of a DELETE request that is past its       *)
(* destroy step (the Store delete pending, or failed).                     *)
(***************************************************************************)
PastDestroy(q, row) ==
    /\ q.pc \in {"delete", "done"} /\ q.op = "delete"
    /\ row \in q.found
    /\ In(q.log, "destroy_ok")

C17_RowsHaveTheirAsset ==
    \A row \in store :
        \/ <<row.kind, row.publicId>> \in cloud
        \/ \E r \in Slots : PastDestroy(req[r], row)
        \/ PastDestroy(sent, row) /\ DeleteFailed(sent)

(***************************************************************************)
(* C18.  No reachable state of a table holds two rows with the same        *)
(* publicId, in any interleaving.  A create whose publicId is that of a    *)
(* row of the table fails with the unique constraint error P2002, inserts  *)
(* nothing, and the request is answered with an error.                     *)
(***************************************************************************)
Collides(q, rows) ==
    /\ q.pc = "create"
    /\ RequiredColumns(q.kind) \subseteq DOMAIN CreateData(q)
    /\ \E row \in rows : row.kind = q.kind /\ row.publicId = q.result.public_id

C18_PublicIdUnique ==
    /\ [](\A row1 \in store, row2 \in store :
            row1.kind = row2.kind /\ row1.publicId = row2.publicId =>
                row1 = row2)
    /\ [](Answered("upload") /\ sent.error = P2002 =>
            sent.resp.status >= 400 /\ sent.row = <<>>)
    /\ [][\A r \in Slots :
            Collides(req[r], store) /\ req'[r].pc = "idle" =>
                /\ sent'.error = P2002
                /\ sent'.resp = Response(500, "database")
                /\ store' = store]_vars

C18_Witness ==
    /\ Answered("upload") /\ sent.error = P2002
    /\ sent.resp = Response(500, "database")
    /\ \E row \in store :
        row.kind = sent.kind /\ row.publicId = sent.result.public_id
    /\ \E r \in Slots : InFlight(r, "upload")

(***************************************************************************)
(* C19.  The row of a successful video upload has originalSize equal to    *)
(* the size of the received file, compressedSize equal to the bytes that   *)
(* Cloudinary reported, or to the original size when it reported none, and *)
(* duration equal to the duration that Cloudinary reported, or 0 when it   *)
(* reported none.  A file of 15728640 bytes for which Cloudinary reports   *)
(* 6000000 bytes and 42.5 s (42500 ms) gives exactly these three values.   *)
(***************************************************************************)
VideoCreated(q) ==
    /\ q.pc = "done" /\ q.op = "upload" /\ q.kind = "video"
    /\ q.resp.status = 201

C19_VideoSizesAndDuration ==
    VideoCreated(sent) =>
        /\ sent.row \in store
        /\ sent.row.originalSize = sent.form.file.size
        /\ sent.row.compressedSize =
            IF "bytes" \in DOMAIN sent.result
            THEN sent.result.bytes ELSE sent.form.file.size
        /\ sent.row.duration =
            IF "duration" \in DOMAIN sent.result
            THEN sent.result.duration ELSE 0

C19_Witness ==
    /\ VideoCreated(sent)
    /\ sent.form.file.size = 15728640
    /\ Has(sent.result, "bytes") /\ sent.result.bytes = 6000000
    /\ Has(sent.result, "duration") /\ sent.result.duration = 42500
    /\ sent.row.originalSize = 15728640
    /\ sent.row.compressedSize = 6000000
    /\ sent.row.duration = 42500

(***************************************************************************)
(* C20.  An upload request always terminates, in Done (201) or in Failed   *)
(* (an error status): every request that is received is answered.  A       *)
(* Cloudinary call that runs into the timeout is an upload error like any  *)
(* other: the request is answered with a failure at once, it has made one  *)
(* upload call and no create, and it has inserted no row.                  *)
(***************************************************************************)
Timeout == [http_code |-> 499]

ClaimedPrivate(path) ==
    \E route \in {<<"/", "dashboard">>,
                  <<"/", "video", "-upload">>,
                  <<"/", "image", "-upload">>,
                  <<"/", "social-share">>,
                  <<"/", "api", "/", "video">>,
                  <<"/", "api", "/", "image">>,
                  <<"/", "api", "/", "video", "-upload">>,
                  <<"/", "api", "/", "image", "-upload">>} :
        path = route \/ StartsWith(path, route \o <<"/">>)

C21_PrivateRoutesRedirect ==
    edge # <<>> /\ edge.userId = NoUser /\ ClaimedPrivate(edge.path) =>
        /\ edge.answer.type = "redirect"
        /\ edge.answer.to = <<"/", "sign-in">>
        /\ edge.answer.params = [redirect_url |-> edge.path]

(***************************************************************************)
(* C22.  The list of a kind of media for a caller holds only rows of that  *)
(* kind whose owner is the caller, taken from the table, newest first      *)
(* (createdAt descending), whatever mixture of owners' rows the table      *)
(* holds.                                                                  *)
(***************************************************************************)
C22_ListOwnNewestFirst ==
    Answered("list") =>
        /\ \A i \in DOMAIN sent.body :
            /\ sent.body[i] \in Table(store, sent.kind)
            /\ sent.body[i].userId = sent.userId
        /\ \A i, j \in DOMAIN sent.body :
            i < j => createdAt(sent.body[i]) >= createdAt(sent.body[j])

C22_Witness ==
    /\ Answered("list")
    /\ Len(sent.body) = 2
    /\ createdAt(sent.body[1]) > createdAt(sent.body[2])
    /\ \E row \in Table(store, sent.kind) : row.userId # sent.userId

(***************************************************************************)
(* C23.  Every row created by an upload has as title the submitted title   *)
(* without its surrounding whitespace, which is never empty, and as        *)
(* description null when the submitted description is absent or blank, and *)
(* the submitted description without its surrounding whitespace otherwise; *)
(* its publicId is the public_id Cloudinary returned.                      *)
(***************************************************************************)
Spaces(s) == \A i \in DOMAIN s : s[i] \in WhiteSpace

\* core is what is left of s when the whitespace around it is taken away
Stripped(s, core) ==
    /\ core # <<>>
    /\ Head(core) \notin WhiteSpace
    /\ core[Len(core)] \notin WhiteSpace
    /\ \E i \in 1..Len(s) :
        /\ i + Len(core) - 1 <= Len(s)
        /\ SubSeq(s, i, i + Len(core) - 1) = core
        /\ Spaces(SubSeq(s, 1, i - 1))
        /\ Spaces(SubSeq(s, i + Len(core), Len(s)))

Created == Answered("upload") /\ sent.resp.status = 201

C23_RowHoldsTrimmedStrings ==
    Created =>
        /\ sent.row \in store
        /\ Stripped(sent.form.title, sent.row.title)
        /\ IF ~Has(sent.form, "description") \/ Spaces(sent.form.description)
           THEN sent.row.description = Null
           ELSE Stripped(sent.form.description, sent.row.description)
        /\ sent.row.publicId = sent.result.public_id

C23_Witness ==
    /\ Created
    /\ sent.form.title = <<" ", "d">>
    /\ sent.row.title = <<"d">>
    /\ Has(sent.form, "description")
    /\ sent.form.description = <<"d", " ">>
    /\ sent.row.description = <<"d">>

(***************************************************************************)
(* C24.  A generated publicId reads {videos|images}/{userId}/{time}-       *)
(* {random}; the publicIds generated for two different users, or for the   *)
(* two kinds, are never equal, whatever their time and random parts are.   *)
(***************************************************************************)
HasTheForm(ref) ==
    LET head == (IF ref.kind = "video"
                 THEN <<"v", "i", "d", "e", "o", "s", "/">>
                 ELSE <<"i", "m", "a", "g", "e", "s", "/">>)
                \o ref.userId \o <<"/">>
        rest == SubSeq(ref.publicId, Len(head) + 1, Len(ref.publicId))
    IN  /\ StartsWith(ref.publicId, head)
        /\ \E i \in DOMAIN rest :
            /\ rest[i] = "-"
            /\ i > 1
            /\ \A j \in 1..(i - 1) :
                rest[j] \in {"0", "1", "2", "3", "4", "5", "6", "7", "8", "9"}
            /\ SubSeq(rest, i + 1, Len(rest)) = ref.randomString

C24_RefsOfDifferentOwnersDiffer ==
    \A a, b \in refs :
        /\ HasTheForm(a)
        /\ a.userId # b.userId \/ a.kind # b.kind => a.publicId # b.publicId

C24_Witness ==
    \E a, b \in refs :
        /\ a.userId = <<"u">> /\ b.userId = <<"u", "/">>
        /\ a.kind = b.kind
        /\ a.timestamp = 11 /\ b.timestamp = 1
        /\ a.randomString = b.randomString

(***************************************************************************)
(* C26.  On the dashboard the lists change only when a DELETE request has  *)
(* come back: with a success response the item of that request, and        *)
(* nothing else, leaves the list of its type and the dialog closes; with a *)
(* failure both lists and the dialog are left as they are; either way      *)
(* isDeleting is false afterwards.                                         *)
(***************************************************************************)
Items(list) == {list[i] : i \in DOMAIN list}

Removed(before, after, id) ==
    after = SelectSeq(before, LAMBDA x : x # id)

DeleteCameBack ==
    /\ Len(dash'.deletes) < Len(dash.deletes)
    /\ dash'.handled # null

C28_OneDeletePerItem ==
    /\ \A i, j \in DOMAIN dash.deletes :
        i # j => dash.deletes[i] # dash.deletes[j]
    /\ [][dash.isDeleting /\ dash.itemToDelete # null =>
            Len(dash'.deletes) <= Len(dash.deletes)]_vars

(***************************************************************************)
(* C25.  The upload pages validate a file as their endpoints do: for any   *)
(* MIME type and size, validateFile of the page accepts the picked file    *)
(* exactly when the format and size checks of the endpoint of the page's   *)
(* kind accept it, and shows its error exactly when they reject it.        *)
(***************************************************************************)
EndpointAccepts(kind, file) ==
    \A userId \in Users :
        UploadCheck(kind, userId, [file |-> file, title |-> <<"d">>]) = Pass

PageAccepted ==
    /\ page.file = page.picked
    /\ page.uploadState = "idle"
    /\ page.errorMessage = ""

PageRejected ==
    /\ page.file # page.picked
    /\ page.uploadState = "error"
    /\ page.errorMessage \in {"Invalid file format", "File size exceeds limit"}

C25_PageValidatesAsEndpoint ==
    page # Unmounted /\ page.picked # null =>
        /\ PageAccepted <=> EndpointAccepts(page.kind, page.picked)
        /\ PageRejected <=> ~EndpointAccepts(page.kind, page.picked)

C25_Witness ==
    /\ page # Unmounted
    /\ page.kind = "image"
    /\ page.picked = [type |-> "image/png", size |-> 10485760]
    /\ PageAccepted

(***************************************************************************)
(* C27.  An upload page has at most one upload request in flight, and      *)
(* while one is in flight uploadState is 'uploading' and the Upload button *)
(* is disabled, also when another file is selected or dropped meanwhile.   *)
(***************************************************************************)
Awaited == {i \in DOMAIN page.fetches : page.fetches[i].pc = "fetch"}

UploadEnabled ==
    /\ page.uploadState \notin {"success", "uploading"}
    /\ page.file # null
    /\ \E i \in DOMAIN page.title : page.title[i] \notin WhiteSpace

C27_OneUploadInFlight ==
    page # Unmounted =>
        /\ Cardinality(Awaited) <= 1
        /\ Awaited # {} => page.uploadState = "uploading" /\ ~UploadEnabled

(***************************************************************************)
(* C29.  The progress timer that handleUpload starts is stopped once its   *)
(* request has finished (success, error response, or rejected fetch), and  *)
(* after a failed upload uploadProgress is 0 and stays 0 until the next    *)
(* upload starts.                                                          *)
(***************************************************************************)
C29_ProgressTimerStopped ==
    /\ [](page # Unmounted =>
            page.intervals \subseteq
                {page.fetches[i].progressInterval : i \in Awaited})
    /\ [][/\ page # Unmounted
          /\ page.errorMessage = "Upload failed"
          /\ page.uploadProgress = 0
          /\ page'.started = page.started
          => page'.uploadProgress = 0]_vars

(***************************************************************************)
(* C30.  The reset of the form that a successful upload schedules discards *)
(* nothing that was entered after that upload: when it runs after 'Upload  *)
(* Another' was pressed (uploaded is null again), the file, the title and  *)
(* the description of the form stay as they are.                           *)
(***************************************************************************)
C30_ResetKeepsNewInput ==
    [][/\ page # Unmounted
       /\ page.uploaded = null
       /\ page'.timeouts < page.timeouts
       => /\ page'.file = page.file
          /\ page'.title = page.title
          /\ page'.description = page.description]_vars

====
